---- MODULE Spec2Model ----
(* Model of maze.py: MazeGenerator (randomized recursive carving), Maze,   *)
(* and MazeSolver (one-step greedy move ranked by a BFS distance).         *)
EXTENDS Integers, Sequences, FiniteSets, TLC

\* ---------------------------------------------------------------- bounds
\* largest width/height handed to MazeGenerator
MaxDim == 7

\* largest number of cells of a hand-built layout
MaxCells == 7

\* solve_step() calls a caller still makes after one returned True or raised
MaxRepeat == 2

\* the four unit vectors, in the order both direction lists of maze.py use
DIRECTIONS == << <<0, 1>>, <<1, 0>>, <<0, -1>>, <<-1, 0>> >>

\* the strategy identifiers a caller may pass; only "A*" is implemented
Strategies == {"A*", "BFS"}

\* Python's None
None == <<>>

\* float('inf'), the value calculate_distance_to_end returns when the queue drains
Infinity == -1

VARIABLES
  width, height,   \* MazeGenerator.width / .height
  gmaze,           \* MazeGenerator.maze, later the layout: gmaze[y][x]
  stack,           \* activation records of _carve_passages_from, top last
  carve_calls,     \* history: how often _carve_passages_from(x, y) was entered
  pc,              \* position of the driver (main)
  nodes,           \* Maze.maze: nodes[row][col] is a MazeNode
  rows, cols,      \* Maze.rows / .cols
  start_node,      \* Maze.start_node
  end_node,        \* Maze.end_node
  current_pos,     \* MazeSolver.current_pos
  solver,          \* MazeSolver.solver
  ret,             \* outcome of the last solve_step(): "True", "False", "raised"
  false_returns,   \* history: number of solve_step() calls that returned False
  repeat_calls     \* history: calls made after a call returned True or raised

genvars == <<width, height, gmaze, stack, carve_calls>>
mazevars == <<nodes, rows, cols, start_node, end_node>>
solvevars == <<current_pos, solver, ret, false_returns, repeat_calls>>
vars == <<genvars, pc, mazevars, solvevars>>

\* no Maze and no MazeSolver have been constructed yet
NoMaze ==
  /\ nodes = <<>> /\ rows = 0 /\ cols = 0
  /\ start_node = None /\ end_node = None
  /\ current_pos = None /\ solver = None
  /\ ret = "none" /\ false_returns = 0 /\ repeat_calls = 0

\* MazeGenerator.__init__: every cell is a wall
NewGenMaze(w, h) == [y \in 0..(h - 1) |-> [x \in 0..(w - 1) |-> "#"]]

InitGen ==
  /\ width \in 3..MaxDim
  /\ height \in 3..MaxDim
  /\ gmaze = NewGenMaze(width, height)
  /\ stack = <<>>
  /\ carve_calls = [c \in (0..(width - 1)) \X (0..(height - 1)) |-> 0]
  /\ pc = "generate"
  /\ NoMaze

\* the guard of the carve loop: 2-step neighbour in bounds and still a wall
CanCarve(m, nx, ny) ==
  /\ 0 <= nx /\ nx < width
  /\ 0 <= ny /\ ny < height
  /\ m[ny][nx] = "#"

SetCell(m, y, x, ch) == [m EXCEPT ![y][x] = ch]

\* An activation of _carve_passages_from(cx, cy).  Its shuffled list is not
\* stored: a direction whose 2-step neighbour is still '#' cannot have been
\* iterated yet (iterating it would have carved the neighbour), and iterating
\* a direction whose neighbour is out of bounds or no longer '#' does
\* nothing, now or later (cells never turn back into '#').  So the outcomes
\* of random.shuffle are exactly the orders in which the directions that
\* pass the guard are taken, and the loop is modelled by choosing any
\* direction that passes the guard now.
Frame(cx, cy) == [cx |-> cx, cy |-> cy]

\* generate(): self._carve_passages_from(1, 1)
Generate ==
  /\ pc = "generate"
  /\ stack' = <<Frame(1, 1)>>
  /\ carve_calls' = [carve_calls EXCEPT ![<<1, 1>>] = @ + 1]
  /\ pc' = "carve"
  /\ UNCHANGED <<width, height, gmaze, mazevars, solvevars>>

\* the innermost activation's loop reaches an iteration that passes the
\* guard: carve the intermediate cell and the neighbour, recurse
CarveStep ==
  /\ pc = "carve"
  /\ stack # <<>>
  /\ LET top == stack[Len(stack)]
     IN \E i \in 1..4 :
          LET d  == DIRECTIONS[i]
              nx == top.cx + d[1] * 2
              ny == top.cy + d[2] * 2
          IN /\ CanCarve(gmaze, nx, ny)
             /\ gmaze' = SetCell(SetCell(gmaze, top.cy + d[2], top.cx + d[1], " "),
                                 ny, nx, " ")
             /\ stack' = Append(stack, Frame(nx, ny))
             /\ carve_calls' = [carve_calls EXCEPT ![<<nx, ny>>] = @ + 1]
  /\ UNCHANGED <<width, height, pc, mazevars, solvevars>>

\* no remaining iteration of the innermost activation passes the guard:
\* its loop ends and it returns
CarveReturn ==
  /\ pc = "carve"
  /\ stack # <<>>
  /\ LET top == stack[Len(stack)]
     IN \A i \in 1..4 :
          ~CanCarve(gmaze, top.cx + DIRECTIONS[i][1] * 2, top.cy + DIRECTIONS[i][2] * 2)
  /\ stack' = SubSeq(stack, 1, Len(stack) - 1)
  /\ pc' = IF Len(stack) = 1 THEN "carved" ELSE "carve"
  /\ UNCHANGED <<width, height, gmaze, carve_calls, mazevars, solvevars>>

\* generate(): write the 'S' and 'E' markers
Mark ==
  /\ pc = "carved"
  /\ gmaze' = SetCell(SetCell(gmaze, 1, 1, "S"), height - 2, width - 2, "E")
  /\ pc' = "layout"
  /\ UNCHANGED <<width, height, stack, carve_calls, mazevars, solvevars>>

\* ------------------------------------------------------------------ Maze
\* a create_maze that takes only ' ' for a passage
TraversableBlankOnly(ch) == ch = " "

\* create_maze: MazeNode(cell != '#')
Traversable(ch) == ch # "#"

MazeNode(trav) ==
  [traversable |-> trav, is_start |-> FALSE, is_end |-> FALSE, visited |-> FALSE]

create_maze(layout, h, w) ==
  [r \in 0..(h - 1) |-> [c \in 0..(w - 1) |-> MazeNode(Traversable(layout[r][c]))]]

\* Maze(maze_layout)
NewMaze ==
  /\ pc = "layout"
  /\ nodes' = create_maze(gmaze, height, width)
  /\ rows' = height
  /\ cols' = width
  /\ start_node' = None
  /\ end_node' = None
  /\ pc' = "maze"
  /\ UNCHANGED <<genvars, solvevars>>

InBounds(row, col) == 0 <= row /\ row < rows /\ 0 <= col /\ col < cols

\* Maze.set_start(row, col), for a cell of the matrix
set_start(row, col) ==
  /\ pc = "maze"
  /\ nodes' = [nodes EXCEPT ![row][col].is_start = TRUE]
  /\ start_node' = IF InBounds(row, col) THEN <<row, col>> ELSE start_node
  /\ pc' = "start_set"
  /\ UNCHANGED <<genvars, rows, cols, end_node, solvevars>>

\* Maze.set_end(row, col), for a cell of the matrix
set_end(row, col) ==
  /\ pc = "start_set"
  /\ nodes' = [nodes EXCEPT ![row][col].is_end = TRUE]
  /\ end_node' = IF InBounds(row, col) THEN <<row, col>> ELSE end_node
  /\ pc' = "end_set"
  /\ UNCHANGED <<genvars, rows, cols, start_node, solvevars>>

\* Maze.get_available_directions(row, col)
get_available_directions(row, col) ==
  SelectSeq(DIRECTIONS,
            LAMBDA d : /\ InBounds(row + d[1], col + d[2])
                       /\ nodes[row + d[1]][col + d[2]].traversable)

\* ------------------------------------------------------------ MazeSolver
\* MazeSolver(maze, solver)
NewSolver(strategy) ==
  /\ pc = "end_set"
  /\ current_pos' = start_node
  /\ solver' = strategy
  /\ pc' = "solve"
  /\ UNCHANGED <<genvars, mazevars, ret, false_returns, repeat_calls>>

\* the comparison distance_to_end < least_dist over ints and float('inf')
LessThan(a, b) == a # Infinity /\ (b = Infinity \/ a < b)

\* queue.pop(): the newest entry instead of the oldest
PopRight(queue) == Len(queue)

\* queue.popleft(): the entry the loop of calculate_distance_to_end takes
PopIndex(queue) == 1

RemoveAt(q, i) == SubSeq(q, 1, i - 1) \o SubSeq(q, i + 1, Len(q))

\* the while loop of calculate_distance_to_end
RECURSIVE BFSLoop(_, _)
BFSLoop(queue, visited) ==
  IF queue = <<>> THEN Infinity
  ELSE LET i    == PopIndex(queue)
           e    == queue[i]
           rest == RemoveAt(queue, i)
       IN IF <<e[1], e[2]>> = end_node THEN e[3]
          ELSE IF <<e[1], e[2]>> \in visited THEN BFSLoop(rest, visited)
          ELSE LET v2  == visited \cup {<<e[1], e[2]>>}
                   ok  == SelectSeq(DIRECTIONS,
                            LAMBDA d : /\ InBounds(e[1] + d[1], e[2] + d[2])
                                       /\ nodes[e[1] + d[1]][e[2] + d[2]].traversable
                                       /\ <<e[1] + d[1], e[2] + d[2]>> \notin v2)
                   new == [k \in 1..Len(ok) |->
                             <<e[1] + ok[k][1], e[2] + ok[k][2], e[3] + 1>>]
               IN BFSLoop(rest \o new, v2)

\* a straight-line estimate in place of the search
ManhattanToEnd(start_row, start_col) ==
  (IF start_row < end_node[1] THEN end_node[1] - start_row ELSE start_row - end_node[1])
  + (IF start_col < end_node[2] THEN end_node[2] - start_col ELSE start_col - end_node[2])

\* MazeSolver.calculate_distance_to_end(start_row, start_col)
calculate_distance_to_end(start_row, start_col) ==
  BFSLoop(<< <<start_row, start_col, 0>> >>, {})

\* the for loop of A_star over directions[k..]: the final best_move
RECURSIVE AStarLoop(_, _, _, _)
AStarLoop(directions, k, least_dist, best_move) ==
  IF k > Len(directions) THEN best_move
  ELSE LET new_pos == <<current_pos[1] + directions[k][1],
                        current_pos[2] + directions[k][2]>>
       IN IF ~nodes[new_pos[1]][new_pos[2]].traversable
          THEN AStarLoop(directions, k + 1, least_dist, best_move)
          ELSE LET distance_to_end == calculate_distance_to_end(new_pos[1], new_pos[2])
               IN IF LessThan(distance_to_end, least_dist)
                  THEN AStarLoop(directions, k + 1, distance_to_end, directions[k])
                  ELSE AStarLoop(directions, k + 1, least_dist, best_move)

\* A_star(row, col): the direction it moves by, or None when it raises
A_star(row, col) ==
  AStarLoop(get_available_directions(row, col), 1, Infinity, None)

\* a flag that is flipped instead of set
ToggleVisited(ns, pos) == [ns EXCEPT ![pos[1]][pos[2]].visited = ~@]

\* self.maze.maze[row][col].visited = True
MarkVisited(ns, pos) == [ns EXCEPT ![pos[1]][pos[2]].visited = TRUE]

\* a solve_step that marks the cell before it tests for the end
VisitedBeforeEndTest(pos) == MarkVisited(nodes, pos)

\* solve_step(): the matrix after the call made at pos
VisitedAfter(pos) ==
  IF pos = end_node THEN nodes
  ELSE MarkVisited(nodes, pos)

\* MazeSolver.solve_step(), find_move and A_star included.  The caller's
\* loop is cut off after rows*cols + 1 calls that returned False, and after
\* MaxRepeat calls beyond the first that returned True or raised.
solve_step ==
  /\ pc = "solve"
  /\ IF ret \in {"True", "raised"}
     THEN repeat_calls < MaxRepeat /\ repeat_calls' = repeat_calls + 1
     ELSE false_returns <= rows * cols /\ UNCHANGED repeat_calls
  /\ nodes' = VisitedAfter(current_pos)
  /\ IF current_pos = end_node
     THEN /\ ret' = "True"
          /\ UNCHANGED <<current_pos, false_returns>>
     ELSE IF solver = "A*"
     THEN LET best_move == A_star(current_pos[1], current_pos[2])
          IN IF best_move # None
             THEN /\ current_pos' = <<current_pos[1] + best_move[1],
                                      current_pos[2] + best_move[2]>>
                  /\ ret' = "False"
                  /\ false_returns' = false_returns + 1
             ELSE /\ ret' = "raised"
                  /\ UNCHANGED <<current_pos, false_returns>>
     ELSE /\ ret' = "False"
          /\ false_returns' = false_returns + 1
          /\ UNCHANGED current_pos
  /\ UNCHANGED <<genvars, pc, rows, cols, start_node, end_node, solver>>

\* -------------------------------------------------------- specifications
\* main(): generate, build the Maze, set_start(1, 1),
\* set_end(height - 2, width - 2), MazeSolver(maze, "A*"), solve_step loop
MainSetStart == set_start(1, 1)
MainSetEnd == set_end(height - 2, width - 2)
MainNewSolver == NewSolver("A*")

NextGen ==
  \/ Generate \/ CarveStep \/ CarveReturn \/ Mark
  \/ NewMaze \/ MainSetStart \/ MainSetEnd \/ MainNewSolver
  \/ solve_step

SpecGen == InitGen /\ [][NextGen]_vars

\* a Maze built from any rectangular layout, any start and end cell of the
\* matrix, any strategy identifier
InitGrid ==
  /\ width \in 1..MaxCells
  /\ height \in 1..MaxCells
  /\ width * height <= MaxCells
  /\ gmaze \in [0..(height - 1) -> [0..(width - 1) -> {"#", " "}]]
  /\ stack = <<>>
  /\ carve_calls = [c \in (0..(width - 1)) \X (0..(height - 1)) |-> 0]
  /\ pc = "layout"
  /\ NoMaze

AnySetStart == \E r \in 0..(rows - 1), c \in 0..(cols - 1) : set_start(r, c)
AnySetEnd == \E r \in 0..(rows - 1), c \in 0..(cols - 1) : set_end(r, c)
AnyNewSolver == \E s \in Strategies : NewSolver(s)

NextGrid == NewMaze \/ AnySetStart \/ AnySetEnd \/ AnyNewSolver \/ solve_step

SpecGrid == InitGrid /\ [][NextGrid]_vars

\* ------------------------------------------------------------ properties
EvenDims == width % 2 = 0 /\ height % 2 = 0

Adjacent(p, q) ==
  \/ p[1] = q[1] /\ (p[2] = q[2] + 1 \/ q[2] = p[2] + 1)
  \/ p[2] = q[2] /\ (p[1] = q[1] + 1 \/ q[1] = p[1] + 1)

\* open cells <<y, x>> of the generator's grid
OpenCells == {p \in (0..(height - 1)) \X (0..(width - 1)) : gmaze[p[1]][p[2]] # "#"}

OpenPairs == {e \in OpenCells \X OpenCells :
                Adjacent(e[1], e[2]) /\
                (e[1][1] < e[2][1] \/ (e[1][1] = e[2][1] /\ e[1][2] < e[2][2]))}

RECURSIVE Closure(_, _)
Closure(seen, among) ==
  LET more == {q \in among \ seen : \E p \in seen : Adjacent(p, q)}
  IN IF more = {} THEN seen ELSE Closure(seen \cup more, among)

\* connected and acyclic: one component, one pair fewer than cells
IsTree ==
  /\ Closure({<<1, 1>>}, OpenCells) = OpenCells
  /\ Cardinality(OpenPairs) = Cardinality(OpenCells) - 1

\* traversable cells <<row, col>> of the Maze
PassCells == {p \in (0..(rows - 1)) \X (0..(cols - 1)) : nodes[p[1]][p[2]].traversable}

\* shortest-path length, by layers growing from the end, of the graph whose
\* vertices are the traversable cells; Infinity when p or the end is not a
\* vertex or no path joins them
RECURSIVE Layers(_, _, _, _)
Layers(frontier, seen, k, p) ==
  IF p \in frontier THEN k
  ELSE IF frontier = {} THEN Infinity
  ELSE LET nxt == {q \in PassCells \ seen : \E f \in frontier : Adjacent(f, q)}
       IN Layers(nxt, seen \cup nxt, k + 1, p)

TrueDist(p) ==
  IF p \notin PassCells \/ end_node \notin PassCells THEN Infinity
  ELSE Layers({end_node}, {end_node}, 0, p)

VisitedCells == {p \in (0..(rows - 1)) \X (0..(cols - 1)) : nodes[p[1]][p[2]].visited}

\* the traversable in-bounds 4-neighbours of p
PassNeighbours(p) == {q \in PassCells : Adjacent(p, q)}

\* C1: every layout generate() returns for even width, height >= 5 has its
\* open cells ('S' and 'E' included) forming a tree under 4-adjacency
C1_PerfectMaze ==
  (pc = "layout" /\ EvenDims /\ width >= 5 /\ height >= 5) => IsTree

\* C2: on a generated maze with start (1,1) and end (height-2, width-2) fewer
\* than rows*cols calls of solve_step() return False, so the call numbered
\* rows*cols at the latest returns True or raises, and a call that returns
\* True leaves current_pos on the end position
C2_SolveTerminates ==
  pc = "solve" =>
    /\ false_returns <= rows * cols - 1
    /\ (ret = "True" => current_pos = end_node)

C2_Witness ==
  /\ pc = "solve" /\ ret = "True" /\ current_pos = end_node
  /\ false_returns >= 6 /\ rows >= 6 /\ cols >= 6

\* C3: for every generated layout (width, height >= 3), after set_start(1,1)
\* and set_end(height-2, width-2), calculate_distance_to_end(1,1) is finite
C3_StartReachesEnd ==
  pc \in {"end_set", "solve"} => calculate_distance_to_end(1, 1) # Infinity

C3_Witness ==
  /\ pc = "end_set" /\ EvenDims /\ width >= 6
  /\ calculate_distance_to_end(1, 1) >= 6

\* C4: a solve_step() call made while current_pos is the end position returns
\* True and leaves current_pos and every cell's flags as they were
C4_AtEndNoChange ==
  [][(pc = "solve" /\ current_pos = end_node) =>
       (ret' = "True" /\ current_pos' = current_pos /\ nodes' = nodes)]_vars

C4_Witness ==
  /\ pc = "solve" /\ ret = "True" /\ repeat_calls >= 1 /\ false_returns >= 1
  /\ current_pos = end_node
  /\ ~nodes[end_node[1]][end_node[2]].visited

\* C5: with the "A*" strategy and current_pos not the end, solve_step()
\* raises exactly when the cell has no traversable neighbour, and otherwise
\* moves to a traversable neighbour and returns False
C5_RaiseIffNoNeighbour ==
  [][(pc = "solve" /\ solver = "A*" /\ current_pos # end_node) =>
       /\ (ret' = "raised") <=> (PassNeighbours(current_pos) = {})
       /\ PassNeighbours(current_pos) # {} =>
            (current_pos' \in PassNeighbours(current_pos) /\ ret' = "False")]_vars

\* C6: no solver exists with a strategy identifier other than "A*", and none
\* has solve_step() return False under such an identifier
C6_UnsupportedStrategy ==
  /\ pc = "solve" => solver = "A*"
  /\ ~(solver \notin {None, "A*"} /\ ret = "False")

\* C7: no solve_step() call turns a cell's visited flag from True to False
C7_VisitedMonotone ==
  [][pc = "solve" => VisitedCells \subseteq VisitedCells']_vars

C7_Witness ==
  /\ pc = "solve" /\ repeat_calls >= 1
  /\ Cardinality(VisitedCells) >= 3

\* C8: for even width, height >= 4, when carving has finished and before the
\* markers are written, cells (1,1) and (height-2, width-2) are not '#'
C8_MarkersOnCarvedCells ==
  (pc = "carved" /\ EvenDims /\ width >= 4 /\ height >= 4) =>
    (gmaze[1][1] # "#" /\ gmaze[height - 2][width - 2] # "#")

\* C9: during generate() _carve_passages_from is entered at most once per cell
C9_CarverEntersOnce ==
  \A c \in DOMAIN carve_calls : carve_calls[c] <= 1

\* C10: with the "A*" strategy, a solve_step() call made where the shortest
\* path to the end has length d >= 1 moves to a traversable 4-neighbour at
\* distance d - 1 that is not marked visited and returns False; and the
\* number of moves made plus the distance left is the distance of the start
C10_StepDescends ==
  /\ [][(pc = "solve" /\ solver = "A*" /\ TrueDist(current_pos) >= 1) =>
          /\ current_pos' \in PassNeighbours(current_pos)
          /\ TrueDist(current_pos') = TrueDist(current_pos) - 1
          /\ current_pos' \notin VisitedCells'
          /\ ret' = "False"]_vars
  /\ []((pc = "solve" /\ solver = "A*" /\ TrueDist(start_node) >= 1) =>
          false_returns + TrueDist(current_pos) = TrueDist(start_node))

\* the end reached across a layout without walls, where every cell off the
\* end's row and column has two neighbours at the same distance
C10_Witness ==
  /\ pc = "solve" /\ solver = "A*" /\ ret = "True"
  /\ rows >= 2 /\ cols >= 3 /\ Cardinality(PassCells) = rows * cols
  /\ false_returns >= 3
====
